---- MODULE Spec2Model ----
(***************************************************************************)
(* Model of xhash_stratum_proxy.py: the Stratum-to-getwork proxy.          *)
(*                                                                         *)
(* Threads of control:                                                     *)
(*   - the asyncio event loop, which runs the poll loop task, the          *)
(*     broadcast and one serving task per miner session; a task runs       *)
(*     without interruption by other tasks until it awaits. Every line     *)
(*     written is followed by the await of its drain, and _closed is set   *)
(*     only when the task resumes from a drain that raised. A drain has    *)
(*     no timeout: while the miner does not read and more than HighWater   *)
(*     lines wait for it, the task stays suspended;                        *)
(*   - the executor worker thread, which runs JobManager.poll_work         *)
(*     statement by statement, in parallel with the event loop, also       *)
(*     between the two dict operations of a find_job call.                 *)
(*                                                                         *)
(* Strings the code converts (hex(), int(x, 16), lower(), startswith) are  *)
(* tuples of one-character strings; opaque strings are TLA+ strings.       *)
(* Diagnostic state (peer, worker_name, Job.created, the logger) is left   *)
(* out.                                                                    *)
(***************************************************************************)
EXTENDS Integers, Sequences, FiniteSets, TLC

VARIABLES
    \* JobManager
    jobs, by_header, current_job, counter,
    \* the upstream node
    works, forwarded, reported,
    \* StratumProxy._poll_loop / JobManager.poll_work / _broadcast
    pollpc, result, pjob, old_ids, popped, pollret, bsnap, bcur, bjob,
    consecutive_errors,
    \* StratumProxy.sessions and the MinerSession objects
    sessions, spc, protocol, authorized, closed,
    shares_accepted, shares_rejected,
    sjob, inbox, blocking,
    \* the TCP connections
    out, broken, stopped, eof, writer_closed,
    \* history
    issued, prevWork, lastDiff, audience

jmVars   == <<jobs, by_header, current_job, counter>>
envVars  == <<works, forwarded, reported>>
pollVars == <<pollpc, result, pjob, old_ids, popped, pollret, bsnap, bcur, bjob,
              consecutive_errors>>
sessVars == <<sessions, spc, protocol, authorized, closed,
              shares_accepted, shares_rejected, sjob, inbox, blocking>>
connVars == <<out, broken, stopped, eof, writer_closed>>
histVars == <<issued, prevWork, lastDiff, audience>>
vars     == <<jmVars, envVars, pollVars, sessVars, connVars, histVars>>

\* Python's None; it differs from every string, list and Job of the model.
None == <<"None">>

-----------------------------------------------------------------------------
(* Bounds *)

\* Jobs the upstream lets the proxy create in the job-cache specification.
MaxCacheJobs == 23
\* Connections accepted, lines received over all of them and Jobs created
\* in the submission specification.
SubmitConns == 1
SubmitMsgs == 2
SubmitJobs == 2
\* Connections accepted, lines received and Jobs created in the push
\* specification.
PushConns == 1
PushMsgs == 2
PushJobs == 2

\* Connections accepted, Jobs created and consecutive poll errors in the
\* poll-loop specification.
LiveConns == 1
LiveJobs == 2
\* Lines the socket takes for a miner that does not read, and lines the
\* transport's buffer holds beyond them before drain suspends the writer
\* (the buffers' sizes in lines).
SocketHolds == 1
HighWater == 1
MaxErrors == 2
\* Connections accepted, lines received and Jobs created in the fault
\* specification.
FaultConns == 2
FaultMsgs == 2
FaultJobs == 1
\* Connections accepted, lines received and Jobs created (the cache holding
\* twenty of them at the start) in the lookup specification.
RaceConns == 1
RaceMsgs == 2
RaceJobs == 21

Sessions ==
    (1..SubmitConns) \cup (1..PushConns) \cup (1..LiveConns) \cup (1..FaultConns)
        \cup (1..RaceConns)

-----------------------------------------------------------------------------
(* Strings *)

HexChars   == <<"0","1","2","3","4","5","6","7","8","9","a","b","c","d","e","f">>
\* The characters of the model's strings, in code point order.
AsciiOrder == <<"0","1","2","3","4","5","6","7","8","9",
                "A","B","C","D","E","F","X",
                "a","b","c","d","e","f","x","z">>

\* str.lower(), one character.
LowerChar(c) ==
    CASE c = "A" -> "a" [] c = "B" -> "b" [] c = "C" -> "c" [] c = "D" -> "d"
      [] c = "E" -> "e" [] c = "F" -> "f" [] c = "X" -> "x" [] OTHER -> c

\* str.lower()
Lower(s) == [i \in 1..Len(s) |-> LowerChar(s[i])]

\* str.startswith("0x")
StartsWith0x(s) == Len(s) >= 2 /\ s[1] = "0" /\ s[2] = "x"

IsHexChar(c) == \E i \in 1..16 : HexChars[i] = LowerChar(c)
DigitVal(c)  == (CHOOSE i \in 1..16 : HexChars[i] = LowerChar(c)) - 1

RECURSIVE HexDigitsOf(_)
HexDigitsOf(n) ==
    IF n < 16 THEN <<HexChars[n + 1]>>
    ELSE HexDigitsOf(n \div 16) \o <<HexChars[(n % 16) + 1]>>

\* hex(n) for n >= 0
hex(n) == <<"0", "x">> \o HexDigitsOf(n)

RECURSIVE DigitsValue(_, _)
DigitsValue(ds, acc) ==
    IF ds = <<>> THEN acc
    ELSE DigitsValue(Tail(ds), acc * 16 + DigitVal(Head(ds)))

ValueError == -1

\* int(s, 16): an optional 0x / 0X prefix, then one or more hex digits of
\* either case; anything else raises ValueError.
IntHex(s) ==
    LET ds == IF Len(s) >= 2 /\ s[1] = "0" /\ LowerChar(s[2]) = "x"
              THEN SubSeq(s, 3, Len(s)) ELSE s
    IN IF ds # <<>> /\ \A i \in 1..Len(ds) : IsHexChar(ds[i])
       THEN DigitsValue(ds, 0) ELSE ValueError

CharOrd(c) == CHOOSE i \in 1..Len(AsciiOrder) : AsciiOrder[i] = c

\* s < t in Python's string order
RECURSIVE StrLess(_, _)
StrLess(s, t) ==
    IF t = <<>> THEN FALSE
    ELSE IF s = <<>> THEN TRUE
    ELSE IF Head(s) = Head(t) THEN StrLess(Tail(s), Tail(t))
    ELSE CharOrd(Head(s)) < CharOrd(Head(t))

-----------------------------------------------------------------------------
(* The upstream node's work *)

WorkA == << <<"0","x","a","a">>, "seedA", <<"0","x","f","f">> >>
WorkB == << <<"0","x","b","b">>, "seedB", <<"0","x","0","f">> >>
\* the header of WorkA in upper case, a zero boundary
WorkC == << <<"0","x","A","A">>, "seedC", <<"0","x","0">> >>
\* a result with fewer than three elements
ShortWork == << <<"0","x","b","b">>, "seedB" >>

\* What get_work can return in a run: two works, served in any order, and
\* in the job-cache specification also None (a failed call) and a short list.
\* a JSON result that is not a list: true
TrueWork == <<"True">>
\* an empty boundary, and one that int(boundary, 16) rejects
WorkE == << <<"0","x","e","e">>, "seedE", <<>> >>
WorkZ == << <<"0","x","d","d">>, "seedZ", <<"0","x","z">> >>

WorkPairs == {{WorkA, WorkB}, {WorkA, WorkC}, {WorkB, WorkC}}
Failing   == {None, ShortWork}

-----------------------------------------------------------------------------
(* Job and JobManager *)

\* class Job, a tuple of its slots (created, a timestamp, is left out)
Job(job_id, header_hash, seed_hash, boundary) ==
    <<job_id, header_hash, seed_hash, boundary>>
JobId(j)      == j[1]
HeaderHash(j) == j[2]
SeedHash(j)   == j[3]
Boundary(j)   == j[4]

\* dict[k] = v
DictSet(d, k, v) == [x \in DOMAIN d \cup {k} |-> IF x = k THEN v ELSE d[x]]
\* dict.pop(k, None), the remaining dict
DictPop(d, k) == [x \in DOMAIN d \ {k} |-> d[x]]
\* dict.get(k)
DictGet(d, k) == IF k \in DOMAIN d THEN d[k] ELSE None

EmptyDict == <<>>

\* "keep last 20"
KeepLast == 20

\* len(result) raises TypeError: the result is truthy and has no length
NotSized(r) == r = TrueWork

\* not result or len(result) < 3
Unusable(r) == r = None \/ r = <<>> \/ Len(r) < 3

SameHeaderNoCase(job, header_hash) ==
    job # None /\ Lower(HeaderHash(job)) = Lower(header_hash)

\* self.current_job and self.current_job.header_hash == header_hash
SameHeader(job, header_hash) ==
    job # None /\ HeaderHash(job) = header_hash

\* self._counter += 1
NextCounter == counter + 1

IntLess(a, b) == IntHex(a) < IntHex(b)

\* sorted(S, key=lambda x: int(x, 16)): ascending, the keys of S being
\* distinct
SortedByInt(S) ==
    [i \in 1..Cardinality(S) |->
        CHOOSE x \in S : Cardinality({y \in S : IntLess(y, x)}) = i - 1]

\* sorted(S): ascending in the order of str
SortedByStr(S) ==
    [i \in 1..Cardinality(S) |->
        CHOOSE x \in S : Cardinality({y \in S : StrLess(y, x)}) = i - 1]

\* seq[:-n] for n > 0
DropLast(seq, n) == SubSeq(seq, 1, Len(seq) - n)

OldIdsLexical(d) == DropLast(SortedByStr(DOMAIN d), KeepLast)

\* sorted(self.jobs.keys(), key=lambda x: int(x, 16))[:-20]
OldIds(d) == DropLast(SortedByInt(DOMAIN d), KeepLast)

\* What a raised KeyError leaves in place of a Job.
KeyError == <<"KeyError">>

\* find_job: job_id and job_id in self.jobs (an absent argument is None, an
\* empty string is falsy)
FindJobTest(job_id) ==
    job_id # None /\ job_id # <<>> /\ job_id \in DOMAIN jobs

\* find_job: return self.jobs[job_id], which raises KeyError when poll_work
\* has popped the id since the test
FindJobRead(job_id) ==
    IF job_id \in DOMAIN jobs THEN jobs[job_id] ELSE KeyError

\* find_job: if header_hash: return self._by_header.get(...); return None
FindJobByHeader(header_hash) ==
    IF header_hash # None /\ header_hash # <<>>
    THEN DictGet(by_header, Lower(header_hash))
    ELSE None

\* JobManager.find_job with no step of poll_work between its test and its
\* read
find_job(job_id, header_hash) ==
    IF FindJobTest(job_id) THEN FindJobRead(job_id)
    ELSE FindJobByHeader(header_hash)

-----------------------------------------------------------------------------
(* poll_work on the executor's worker thread *)

\* get_work, the length test, the header comparison, the counter and Job().
PollGetWork(maxJobs) ==
    /\ pollpc = "get_work"
    /\ \E r \in works :
        /\ result' = r
        /\ IF NotSized(r)
           THEN /\ consecutive_errors < MaxErrors
                /\ pollpc' = "raised"
                /\ UNCHANGED <<counter, pjob, pollret>>
           ELSE IF Unusable(r) \/ SameHeader(current_job, r[1])
           THEN /\ pollret' = None
                /\ pollpc' = "returned"
                /\ UNCHANGED <<counter, pjob>>
           ELSE /\ counter < maxJobs
                /\ counter' = NextCounter
                /\ pjob' = Job(hex(counter'), r[1], r[2], r[3])
                /\ pollpc' = "insert_jobs"
                /\ UNCHANGED pollret
        /\ IF NotSized(r) \/ Unusable(r) THEN UNCHANGED <<prevWork, lastDiff>>
           ELSE /\ prevWork' = r
                /\ lastDiff' = IF prevWork = None \/ prevWork[1] # r[1]
                               THEN r[1] ELSE lastDiff
    /\ UNCHANGED <<jobs, by_header, current_job, envVars, old_ids, popped,
                   bsnap, bcur, bjob, consecutive_errors, sessVars, connVars, issued, audience>>

\* self.jobs[job_id] = job
PollInsertJob ==
    /\ pollpc = "insert_jobs"
    /\ jobs' = DictSet(jobs, JobId(pjob), pjob)
    /\ issued' = issued \cup {pjob}
    /\ pollpc' = "insert_by_header"
    /\ UNCHANGED <<by_header, current_job, counter, envVars, result, pjob,
                   old_ids, popped, pollret, bsnap, bcur, bjob, consecutive_errors, sessVars,
                   connVars, prevWork, lastDiff, audience>>

\* self._by_header[header_hash.lower()] = job
PollInsertByHeader ==
    /\ pollpc = "insert_by_header"
    /\ by_header' = DictSet(by_header, Lower(HeaderHash(pjob)), pjob)
    /\ pollpc' = "set_current"
    /\ UNCHANGED <<jobs, current_job, counter, envVars, result, pjob,
                   old_ids, popped, pollret, bsnap, bcur, bjob, consecutive_errors, sessVars,
                   connVars, histVars>>

\* self.current_job = job
PollSetCurrent ==
    /\ pollpc = "set_current"
    /\ current_job' = pjob
    /\ pollpc' = "prune"
    /\ UNCHANGED <<jobs, by_header, counter, envVars, result, pjob,
                   old_ids, popped, pollret, bsnap, bcur, bjob, consecutive_errors, sessVars,
                   connVars, histVars>>

\* if len(self.jobs) > 20: old_ids = ...; else return job
PollPrune ==
    /\ pollpc = "prune"
    /\ IF Cardinality(DOMAIN jobs) > KeepLast
       THEN /\ old_ids' = OldIds(jobs)
            /\ pollpc' = "pop_job"
            /\ UNCHANGED pollret
       ELSE /\ pollret' = pjob
            /\ pollpc' = "returned"
            /\ UNCHANGED old_ids
    /\ UNCHANGED <<jmVars, envVars, result, pjob, popped, bsnap, bcur, bjob, consecutive_errors,
                   sessVars, connVars, histVars>>

\* for oid in old_ids: j = self.jobs.pop(oid, None)
PollPopJob ==
    /\ pollpc = "pop_job"
    /\ IF old_ids = <<>>
       THEN /\ pollret' = pjob
            /\ pollpc' = "returned"
            /\ UNCHANGED <<jobs, popped, old_ids>>
       ELSE /\ popped' = DictGet(jobs, Head(old_ids))
            /\ jobs' = DictPop(jobs, Head(old_ids))
            /\ old_ids' = Tail(old_ids)
            /\ pollpc' = IF popped' # None THEN "pop_header" ELSE "pop_job"
            /\ UNCHANGED pollret
    /\ UNCHANGED <<by_header, current_job, counter, envVars, result, pjob,
                   bsnap, bcur, bjob, consecutive_errors, sessVars, connVars, histVars>>

\* if j: self._by_header.pop(j.header_hash.lower(), None)
PollPopHeader ==
    /\ pollpc = "pop_header"
    /\ by_header' = DictPop(by_header, Lower(HeaderHash(popped)))
    /\ pollpc' = "pop_job"
    /\ UNCHANGED <<jobs, current_job, counter, envVars, result, pjob,
                   old_ids, popped, pollret, bsnap, bcur, bjob, consecutive_errors, sessVars,
                   connVars, histVars>>

\* poll_work up to the pruning test
PollCreate(maxJobs) ==
    \/ PollGetWork(maxJobs)
    \/ PollInsertJob
    \/ PollInsertByHeader
    \/ PollSetCurrent
    \/ PollPrune

\* poll_work's pruning loop
PollEvict ==
    \/ PollPopJob
    \/ PollPopHeader

-----------------------------------------------------------------------------
(* The wire: lines written to a miner's connection *)

\* {"id": msg_id, "result": result, "error": None}
ResultLine(msg_id, body) ==
    [kind |-> "result", id |-> msg_id, method |-> "", code |-> 0, body |-> body]
\* {"id": msg_id, "result": None, "error": [code, message, None]}
ErrorLine(msg_id, code, message) ==
    [kind |-> "error", id |-> msg_id, method |-> "", code |-> code,
     body |-> <<message>>]
\* {"id": None, "method": method, "params": params}
NotificationLine(method, params) ==
    [kind |-> "notification", id |-> 0, method |-> method, code |-> 0,
     body |-> params]

\* _send_json up to its await: nothing is written once _closed is set (cl
\* is _closed of every session as the caller finds it); what is written to
\* a lost connection reaches nobody.
WriteOut(s, line, cl) ==
    IF cl[s] \/ broken[s] THEN out ELSE [out EXCEPT ![s] = Append(@, line)]
\* _send_json resumed from await self.writer.drain(): on a lost connection
\* drain raised, except (ConnectionResetError, BrokenPipeError, OSError):
\* self._closed = True
WriteClosed(s) ==
    IF ~closed[s] /\ broken[s] THEN [closed EXCEPT ![s] = TRUE] ELSE closed

\* Lines written to s that its miner has not read. stopped[s] is the number
\* of lines written to s when its miner stopped reading, -1 while it reads.
Unread(s) == IF stopped[s] < 0 THEN 0 ELSE Len(out[s]) - stopped[s]

\* Lines in the buffer of s's transport: what the socket did not take.
Buffered(s) == IF Unread(s) > SocketHolds THEN Unread(s) - SocketHolds ELSE 0

\* await self.writer.drain() can resume: the connection is lost (drain
\* raises), or the transport's buffer is not over its high-water mark. The
\* end of the miner's sending side does not resume it, and drain has no
\* timeout.
DrainReady(s) == broken[s] \/ Buffered(s) <= HighWater

\* await self.writer.wait_closed() can resume: the connection is lost, or
\* the transport has flushed its buffer and closed the socket.
WaitClosedReady(s) == broken[s] \/ Buffered(s) = 0

\* int(job.boundary, 16) if job.boundary else 1
BoundaryInt(job) ==
    IF Boundary(job) = <<>> THEN 1 ELSE IntHex(Boundary(job))

\* (2**256 - 1) / boundary_int if boundary_int > 0 else 1.0; the quotient is
\* kept as its divisor.
Difficulty(job) ==
    IF BoundaryInt(job) > 0 THEN <<"(2**256 - 1) /", BoundaryInt(job)>>
    ELSE <<"1.0">>

\* int() raised in send_stratum_job
DifficultyRaises(job) ==
    Boundary(job) # <<>> /\ IntHex(Boundary(job)) = ValueError

SetDifficultyLine(job) == NotificationLine("mining.set_difficulty", <<Difficulty(job)>>)
StratumNotifyLine(job) ==
    NotificationLine("mining.notify", <<JobId(job), SeedHash(job), HeaderHash(job), TRUE>>)
EthproxyNotifyLine(job) ==
    NotificationLine("mining.notify", <<HeaderHash(job), SeedHash(job), Boundary(job)>>)

RemoveNothing(seq, x) == seq

\* list.remove(x)
Remove(seq, x) ==
    LET idx == {i \in 1..Len(seq) : seq[i] = x}
        k   == CHOOSE i \in idx : \A j \in idx : i <= j
    IN IF idx = {} THEN seq
       ELSE SubSeq(seq, 1, k - 1) \o SubSeq(seq, k + 1, Len(seq))

-----------------------------------------------------------------------------
(* _poll_loop and _broadcast on the event loop *)

\* The event loop runs no task while a session's handler sits in a blocking
\* upstream call.
LoopFree == blocking = 0

\* run_in_executor(None, self.job_manager.poll_work)
PollLoopStart ==
    /\ LoopFree
    /\ pollpc = "sleep"
    /\ pollpc' = "get_work"
    /\ UNCHANGED <<jmVars, envVars, result, pjob, old_ids, popped, pollret,
                   bsnap, bcur, bjob, consecutive_errors, sessVars, connVars,
                   histVars>>

\* _broadcast reaches session s: it writes unless s is closed or
\* send_stratum_job raises before its first write (swallowed).
BroadcastWrites(s, job, cl) ==
    /\ ~cl[s]
    /\ protocol[s] = "ethproxy" \/ ~DifficultyRaises(job)

\* _broadcast from the head of rest up to its next await, cl being _closed
\* of every session as it resumes: the sessions that get no write are passed
\* over, the first line of the next push is written and its drain awaited.
BroadcastFrom(rest, job, cl) ==
    LET hit == {i \in 1..Len(rest) : BroadcastWrites(rest[i], job, cl)}
    IN /\ closed' = cl
       /\ IF hit = {}
          THEN /\ pollpc' = "sleep"
               /\ consecutive_errors' = 0
               /\ bsnap' = <<>>
               /\ bcur' = 0
               /\ UNCHANGED out
          ELSE LET k == CHOOSE i \in hit : \A j \in hit : i <= j
                   s == rest[k]
               IN /\ bsnap' = SubSeq(rest, k + 1, Len(rest))
                  /\ bcur' = s
                  /\ UNCHANGED consecutive_errors
                  /\ IF protocol[s] = "ethproxy"
                     THEN /\ out' = WriteOut(s, EthproxyNotifyLine(job), cl)
                          /\ pollpc' = "broadcast"
                     ELSE /\ out' = WriteOut(s, SetDifficultyLine(job), cl)
                          /\ pollpc' = "bcast_notify"

\* Where _poll_loop goes on after its except clause: to the sleep that ends
\* every iteration.
AfterPollError == "sleep"

\* job = await run_in_executor(...): poll_work returned or raised.
\* if job: await self._broadcast(job); consecutive_errors = 0
\* except Exception: consecutive_errors += 1
PollLoopResume ==
    /\ LoopFree
    /\ pollpc \in {"returned", "raised"}
    /\ bjob' = IF pollpc = "raised" THEN bjob ELSE pollret
    /\ IF pollpc = "raised"
       THEN /\ pollpc' = AfterPollError
            /\ consecutive_errors' = consecutive_errors + 1
            /\ UNCHANGED <<bsnap, bcur, out, closed>>
       ELSE IF pollret = None
       THEN /\ pollpc' = "sleep"
            /\ consecutive_errors' = 0
            /\ UNCHANGED <<bsnap, bcur, out, closed>>
       ELSE BroadcastFrom(sessions, pollret, closed)
    \* poll_work's frame is gone
    /\ result' = None
    /\ pjob' = None
    /\ popped' = None
    /\ pollret' = None
    \* the authorized, open sessions the new Job finds registered
    /\ audience' = IF pollret = None THEN audience
                   ELSE {s \in Sessions : /\ \E i \in 1..Len(sessions) : sessions[i] = s
                                          /\ authorized[s]
                                          /\ ~closed[s]}
    /\ UNCHANGED <<jmVars, envVars, old_ids,
                   sessions, spc, protocol, authorized, shares_accepted,
                   shares_rejected, sjob, inbox, blocking,
                   broken, stopped, eof, writer_closed, issued, prevWork, lastDiff>>

\* _broadcast resumes from the drain of a session's last line: the drain
\* returned, or it raised and _send_json set _closed
BroadcastNext ==
    /\ LoopFree
    /\ pollpc = "broadcast"
    /\ DrainReady(bcur)
    /\ BroadcastFrom(bsnap, bjob, WriteClosed(bcur))
    /\ UNCHANGED <<jmVars, envVars, result, pjob, old_ids, popped, pollret,
                   bjob, sessions, spc, protocol, authorized, shares_accepted,
                   shares_rejected, sjob, inbox, blocking,
                   broken, stopped, eof, writer_closed, histVars>>

\* send_stratum_job resumes from the drain of mining.set_difficulty: with
\* _closed set, mining.notify is not written and _broadcast goes on at once
BroadcastNotify ==
    /\ LoopFree
    /\ pollpc = "bcast_notify"
    /\ DrainReady(bcur)
    /\ LET cl == WriteClosed(bcur)
       IN IF cl[bcur]
          THEN BroadcastFrom(bsnap, bjob, cl)
          ELSE /\ out' = WriteOut(bcur, StratumNotifyLine(bjob), cl)
               /\ closed' = cl
               /\ pollpc' = "broadcast"
               /\ UNCHANGED <<bsnap, bcur, consecutive_errors>>
    /\ UNCHANGED <<jmVars, envVars, result, pjob, old_ids, popped, pollret,
                   bjob, sessions, spc, protocol, authorized, shares_accepted,
                   shares_rejected, sjob, inbox, blocking,
                   broken, stopped, eof, writer_closed, histVars>>

PollLoop ==
    \/ PollLoopStart
    \/ PollLoopResume

Broadcast ==
    \/ BroadcastNext
    \/ BroadcastNotify

-----------------------------------------------------------------------------
(* MinerSession: one serving task per connection *)

\* What session handlers never touch.
proxyVars == <<jmVars, works, pollVars, histVars>>

\* Lines received so far, over all connections.
RECURSIVE SumLen(_, _)
SumLen(f, S) ==
    IF S = {} THEN 0
    ELSE LET s == CHOOSE x \in S : TRUE IN Len(f[s]) + SumLen(f, S \ {s})
Received == SumLen(inbox, Sessions)

\* StratumProxy._on_connect: register the session, then run() up to its
\* first readline. Connections are numbered in the order they are accepted.
Connect(s) ==
    /\ LoopFree
    /\ spc[s] = "new"
    /\ \A o \in Sessions : o < s => spc[o] # "new"
    /\ sessions' = Append(sessions, s)
    /\ spc' = [spc EXCEPT ![s] = "read"]
    /\ UNCHANGED <<proxyVars, forwarded, reported, protocol, authorized, closed,
                   shares_accepted, shares_rejected, sjob, inbox, blocking,
                   connVars>>

\* The connection is lost: the peer resets it, or closes it and answers
\* with a reset what is written to it afterwards. readline ends and a drain
\* raises.
ConnLost(s) ==
    /\ spc[s] \notin {"new", "done"}
    /\ ~broken[s]
    /\ broken' = [broken EXCEPT ![s] = TRUE]
    /\ UNCHANGED <<proxyVars, forwarded, reported, sessVars, out, stopped, eof,
                   writer_closed>>

\* The miner shuts down the sending side of its connection and keeps the
\* receiving side: readline returns b"", writes and drains go on as before.
MinerHalfClose(s) ==
    /\ spc[s] \notin {"new", "done"}
    /\ ~broken[s]
    /\ ~eof[s]
    /\ eof' = [eof EXCEPT ![s] = TRUE]
    /\ UNCHANGED <<proxyVars, forwarded, reported, sessVars, out, broken,
                   stopped, writer_closed>>

\* The miner stops reading its socket: what is written from now on stays in
\* the socket's and the transport's buffers.
MinerStops(s) ==
    /\ spc[s] \notin {"new", "done"}
    /\ ~broken[s]
    /\ stopped[s] < 0
    /\ stopped' = [stopped EXCEPT ![s] = Len(out[s])]
    /\ UNCHANGED <<proxyVars, forwarded, reported, sessVars, out, broken, eof,
                   writer_closed>>

\* The miner reads again and empties the buffers.
MinerResumes(s) ==
    /\ stopped[s] >= 0
    /\ stopped' = [stopped EXCEPT ![s] = -1]
    /\ UNCHANGED <<proxyVars, forwarded, reported, sessVars, out, broken, eof,
                   writer_closed>>

\* run(): readline returned the line of a request with this method and
\* params; _dispatch.
Receive(s, method, params, maxMsgs) ==
    /\ LoopFree
    /\ spc[s] = "read"
    /\ ~eof[s]
    /\ Received < maxMsgs
    /\ inbox' = [inbox EXCEPT ![s] = Append(@, <<method, params>>)]

Method(req) == req[1]
Params(req) == req[2]

MsgIdFirst(s) == 1

\* The id of the request being handled (the miner numbers its requests).
MsgId(s) == Len(inbox'[s])

\* A handler returned, _closed of every session being cl: run() tests
\* _closed. With _closed set, close() does nothing and on_disconnect removes
\* the session; otherwise readline.
HandlerDone(s, cl) ==
    /\ closed' = cl
    /\ IF cl[s]
       THEN /\ spc' = [spc EXCEPT ![s] = "done"]
            /\ sessions' = Remove(sessions, s)
       ELSE /\ spc' = [spc EXCEPT ![s] = "read"]
            /\ UNCHANGED sessions
    /\ UNCHANGED writer_closed

\* The handler's last _send_json, up to its await: with _closed set it
\* returns at once and so does the handler; otherwise the line is written
\* and the drain awaited.
Reply(s, line, cl) ==
    IF cl[s]
    THEN HandlerDone(s, cl) /\ UNCHANGED out
    ELSE /\ out' = WriteOut(s, line, cl)
         /\ closed' = cl
         /\ spc' = [spc EXCEPT ![s] = "drain"]
         /\ UNCHANGED <<sessions, writer_closed>>

\* run() is left by break or by an exception, _closed of every session being
\* cl: finally: await self.close(). close() closes the writer only if _closed
\* is not set yet, and awaits wait_closed; on_disconnect follows.
SessionExit(s, cl) ==
    IF cl[s]
    THEN /\ spc' = [spc EXCEPT ![s] = "done"]
         /\ sessions' = Remove(sessions, s)
         /\ closed' = cl
         /\ UNCHANGED writer_closed
    ELSE /\ closed' = [cl EXCEPT ![s] = TRUE]
         /\ writer_closed' = [writer_closed EXCEPT ![s] = @ + 1]
         /\ spc' = [spc EXCEPT ![s] = "closing"]
         /\ UNCHANGED sessions

\* The handler's last _send_json resumes from its drain (which raised on a
\* lost connection) and the handler returns to run().
ReplyDrained(s) ==
    /\ LoopFree
    /\ spc[s] = "drain"
    /\ DrainReady(s)
    /\ HandlerDone(s, WriteClosed(s))
    /\ UNCHANGED <<proxyVars, forwarded, reported, protocol, authorized,
                   shares_accepted, shares_rejected, sjob, inbox, blocking,
                   out, broken, stopped, eof>>

\* readline returned b"" or raised ConnectionResetError
SessionReadEnd(s) ==
    /\ LoopFree
    /\ spc[s] = "read"
    /\ broken[s] \/ eof[s]
    /\ SessionExit(s, closed)
    /\ UNCHANGED <<proxyVars, forwarded, reported, protocol, authorized,
                   shares_accepted, shares_rejected, sjob, inbox, blocking,
                   out, broken, stopped, eof>>

\* after wait_closed: self.on_disconnect(self)
SessionDisconnect(s) ==
    /\ LoopFree
    /\ spc[s] = "closing"
    /\ WaitClosedReady(s)
    /\ spc' = [spc EXCEPT ![s] = "done"]
    /\ sessions' = Remove(sessions, s)
    /\ UNCHANGED <<proxyVars, forwarded, reported, protocol, authorized, closed,
                   shares_accepted, shares_rejected, sjob, inbox, blocking,
                   connVars>>

\* _ethproxy_login
EthproxyLogin(s, maxMsgs) ==
    /\ Receive(s, "eth_submitLogin", <<>>, maxMsgs)
    /\ protocol' = [protocol EXCEPT ![s] = "ethproxy"]
    /\ authorized' = [authorized EXCEPT ![s] = TRUE]
    /\ Reply(s, ResultLine(MsgId(s), <<TRUE>>), closed)
    /\ UNCHANGED <<proxyVars, forwarded, reported, shares_accepted, shares_rejected,
                   sjob, blocking, broken, stopped, eof>>

\* _ethproxy_getwork
EthproxyGetwork(s, maxMsgs) ==
    /\ Receive(s, "eth_getWork", <<>>, maxMsgs)
    /\ IF current_job # None
       THEN Reply(s, ResultLine(MsgId(s),
                <<HeaderHash(current_job), SeedHash(current_job), Boundary(current_job)>>),
                closed)
       ELSE Reply(s, ErrorLine(MsgId(s), -1, "No work available yet"), closed)
    /\ UNCHANGED <<proxyVars, forwarded, reported, protocol, authorized,
                   shares_accepted, shares_rejected, sjob, blocking, broken, stopped, eof>>

\* params of eth_submitHashrate: [rate, id], too few, or null
HashrateParams == { <<"0x5f5e100", "0x1d">>, <<"0x5f5e100">>, None }

\* _ethproxy_hashrate up to its first await or up to rpc.submit_hashrate, a
\* blocking HTTP call made on the event loop's thread: len(None) raises
\* TypeError, which run() catches outside its loop; fewer than two params
\* are answered at once.
EthproxyHashrate(s, maxMsgs) ==
    /\ \E params \in HashrateParams :
        /\ Receive(s, "eth_submitHashrate", params, maxMsgs)
        /\ IF params = None
           THEN /\ SessionExit(s, closed)
                /\ UNCHANGED <<reported, blocking, out>>
           ELSE IF Len(params) >= 2
           THEN /\ reported' = Append(reported, <<s, params[1], params[2]>>)
                /\ blocking' = s
                /\ spc' = [spc EXCEPT ![s] = "hashrate"]
                /\ UNCHANGED <<sessions, closed, writer_closed, out>>
           ELSE /\ Reply(s, ResultLine(MsgId(s), <<TRUE>>), closed)
                /\ UNCHANGED <<reported, blocking>>
    /\ UNCHANGED <<proxyVars, forwarded, protocol, authorized,
                   shares_accepted, shares_rejected, sjob, broken, stopped, eof>>

\* rpc.submit_hashrate returned or raised (except Exception: pass): the
\* reply is true either way, up to its drain.
HashrateReturn(s) ==
    /\ blocking = s
    /\ spc[s] = "hashrate"
    /\ blocking' = 0
    /\ Reply(s, ResultLine(Len(inbox[s]), <<TRUE>>), closed)
    /\ UNCHANGED <<proxyVars, forwarded, reported, protocol, authorized,
                   shares_accepted, shares_rejected, sjob, inbox, broken, stopped, eof>>

\* mining.extranonce.subscribe and every unknown method
OtherMethod(s, maxMsgs) ==
    /\ Receive(s, "mining.extranonce.subscribe", <<>>, maxMsgs)
    /\ Reply(s, ResultLine(MsgId(s), <<TRUE>>), closed)
    /\ UNCHANGED <<proxyVars, forwarded, reported, protocol, authorized,
                   shares_accepted, shares_rejected, sjob, blocking, broken, stopped, eof>>

\* run(): a line that is empty or that json.loads rejects is skipped
\* (continue), and the loop tests _closed again.
NotJson == "not JSON"
SkippedLine(s, maxMsgs) ==
    /\ Receive(s, NotJson, <<>>, maxMsgs)
    /\ HandlerDone(s, closed)
    /\ UNCHANGED <<proxyVars, forwarded, reported, protocol, authorized,
                   shares_accepted, shares_rejected, sjob, blocking, out,
                   broken, stopped, eof>>

\* _dispatch of a JSON value that is not an object ([], 1, "x"): msg.get
\* raises AttributeError, which run() catches outside its loop.
NotAnObject == "not an object"
NotARequest(s, maxMsgs) ==
    /\ Receive(s, NotAnObject, <<>>, maxMsgs)
    /\ SessionExit(s, closed)
    /\ UNCHANGED <<proxyVars, forwarded, reported, protocol, authorized,
                   shares_accepted, shares_rejected, sjob, blocking, out,
                   broken, stopped, eof>>

\* _ethproxy_submitwork with "params": null: len(None) raises TypeError,
\* which run() catches outside its loop.
NullParams(s, maxMsgs) ==
    /\ Receive(s, "eth_submitWork", None, maxMsgs)
    /\ SessionExit(s, closed)
    /\ UNCHANGED <<proxyVars, forwarded, reported, protocol, authorized,
                   shares_accepted, shares_rejected, sjob, blocking, out,
                   broken, stopped, eof>>

\* _stratum_subscribe / _stratum_authorize once their reply is behind them,
\* _closed of every session being cl: if self.job_manager.current_job:
\* await self.send_stratum_job(...), up to the drain of
\* mining.set_difficulty. int() raising ends run(); with _closed set nothing
\* is written and the handler returns at once.
PushStart(s, cl) ==
    IF current_job = None
    THEN HandlerDone(s, cl) /\ UNCHANGED <<out, sjob>>
    ELSE IF DifficultyRaises(current_job)
    THEN SessionExit(s, cl) /\ UNCHANGED <<out, sjob>>
    ELSE IF cl[s]
    THEN HandlerDone(s, cl) /\ UNCHANGED <<out, sjob>>
    ELSE /\ out' = WriteOut(s, SetDifficultyLine(current_job), cl)
         /\ closed' = cl
         /\ sjob' = [sjob EXCEPT ![s] = current_job]
         /\ spc' = [spc EXCEPT ![s] = "push_notify"]
         /\ UNCHANGED <<sessions, writer_closed>>

\* The reply of _stratum_subscribe / _stratum_authorize, up to its await:
\* with _closed set nothing is written and the handler runs on.
PushReply(s, line) ==
    IF closed[s]
    THEN PushStart(s, closed)
    ELSE /\ out' = WriteOut(s, line, closed)
         /\ spc' = [spc EXCEPT ![s] = "push"]
         /\ UNCHANGED <<sessions, closed, writer_closed, sjob>>

\* _stratum_subscribe up to its first await
StratumSubscribe(s, maxMsgs) ==
    /\ Receive(s, "mining.subscribe", <<>>, maxMsgs)
    /\ protocol' = [protocol EXCEPT ![s] = "stratum"]
    /\ PushReply(s, ResultLine(MsgId(s), <<"subscription">>))
    /\ UNCHANGED <<proxyVars, forwarded, reported, authorized,
                   shares_accepted, shares_rejected, blocking, broken, stopped, eof>>

\* _stratum_authorize up to its first await
StratumAuthorize(s, maxMsgs) ==
    /\ Receive(s, "mining.authorize", <<>>, maxMsgs)
    /\ authorized' = [authorized EXCEPT ![s] = TRUE]
    /\ PushReply(s, ResultLine(MsgId(s), <<TRUE>>))
    /\ UNCHANGED <<proxyVars, forwarded, reported, protocol,
                   shares_accepted, shares_rejected, blocking, broken, stopped, eof>>

\* The handler resumes from the drain of its reply (which raised on a lost
\* connection) and pushes the current job.
SessionPush(s) ==
    /\ LoopFree
    /\ spc[s] = "push"
    /\ DrainReady(s)
    /\ PushStart(s, WriteClosed(s))
    /\ UNCHANGED <<proxyVars, forwarded, reported, protocol, authorized,
                   shares_accepted, shares_rejected, inbox, blocking, broken, stopped, eof>>

\* send_stratum_job resumes from the drain of mining.set_difficulty:
\* mining.notify
SessionPushNotify(s) ==
    /\ LoopFree
    /\ spc[s] = "push_notify"
    /\ DrainReady(s)
    /\ Reply(s, StratumNotifyLine(sjob[s]), WriteClosed(s))
    /\ UNCHANGED <<proxyVars, forwarded, reported, protocol, authorized,
                   shares_accepted, shares_rejected, sjob, inbox, blocking,
                   broken, stopped, eof>>

-----------------------------------------------------------------------------
(* Submissions *)

Nonce0x   == <<"0","x","1">>
NonceBare == <<"1">>
Mix0x     == <<"0","x","c">>
MixBare   == <<"c">>
HdrBare   == <<"a","a">>
StaleId   == <<"0","x","6","3">>

\* params of eth_submitWork: [nonce, headerHash, mixDigest], or too few
EthSubmitParams ==
    { <<Nonce0x, WorkA[1]>>,
      <<Nonce0x, WorkA[1], Mix0x>>,
      <<NonceBare, HdrBare, MixBare>> }

\* params of mining.submit: [worker, jobId, nonce, ...], or null
StratumSubmitParams ==
    { None,
      <<"w", hex(1)>>,
      <<"w", hex(1), Nonce0x>>,
      <<"w", StaleId, Nonce0x>>,
      <<"w", hex(1), NonceBare, MixBare>>,
      <<"w", StaleId, Nonce0x, Mix0x>>,
      <<"w", hex(1), Nonce0x, <<>>>>,
      <<"w", StaleId, NonceBare, HdrBare, MixBare>> }

\* if not x.startswith("0x"): x = "0x" + x
Normalize(x) == IF StartsWith0x(x) THEN x ELSE <<"0", "x">> \o x

\* not x, for a string or None
Falsy(x) == x = None \/ x = <<>>

\* submit_solution up to rpc.submit_work: the three arguments are
\* normalized (None.startswith raises, outside the try, and ends run()),
\* then the blocking HTTP call is made on the event loop's thread.
SubmitSolution(s, nonce, header_hash, mix_digest) ==
    IF nonce = None \/ header_hash = None \/ mix_digest = None
    THEN /\ SessionExit(s, closed)
         /\ blocking' = 0
         /\ UNCHANGED <<forwarded, out>>
    ELSE /\ forwarded' = Append(forwarded,
                <<s, Normalize(nonce), Normalize(header_hash), Normalize(mix_digest)>>)
         /\ blocking' = s
         /\ spc' = [spc EXCEPT ![s] = "blocked"]
         /\ UNCHANGED <<sessions, closed, writer_closed, out>>

\* _ethproxy_submitwork up to the upstream call
EthproxySubmitwork(s, maxMsgs) ==
    /\ \E params \in EthSubmitParams :
        /\ Receive(s, "eth_submitWork", params, maxMsgs)
        /\ IF Len(params) < 3
           THEN /\ Reply(s, ErrorLine(MsgId(s), -1, "Need [nonce, headerHash, mixDigest]"),
                         closed)
                /\ UNCHANGED <<forwarded, blocking>>
           ELSE SubmitSolution(s, params[1], params[2], params[3])
    /\ UNCHANGED <<proxyVars, reported, protocol, authorized, shares_accepted,
                   shares_rejected, sjob, broken, stopped, eof>>

NotAuthorizedNever(s) == FALSE

\* if not self.authorized
NotAuthorized(s) == ~authorized[s]

\* header_hash in _stratum_submit
SubmitHeader(params, job) ==
    IF Len(params) >= 5 THEN params[4]
    ELSE IF job # None THEN HeaderHash(job) ELSE None

\* mix_digest in _stratum_submit
SubmitMix(params) ==
    IF Len(params) >= 5 THEN params[5]
    ELSE IF Len(params) >= 4 THEN params[4] ELSE None

\* _stratum_submit from the Job find_job returned up to the upstream call
SubmitFound(s, params, job) ==
    LET header_hash == SubmitHeader(params, job)
        mix_digest == SubmitMix(params)
    IN IF (Falsy(header_hash) \/ Falsy(mix_digest)) /\ job = None
       THEN /\ Reply(s, ErrorLine(MsgId(s), 21,
                   "Job not found, can't reconstruct submission"), closed)
            /\ blocking' = 0
            /\ UNCHANGED forwarded
       ELSE SubmitSolution(s, params[3], header_hash, mix_digest)

\* _stratum_submit up to the upstream call (len(None) raises TypeError,
\* which run() catches outside its loop), or up to the point in find_job
\* between `job_id in self.jobs` and `self.jobs[job_id]`, where the
\* executor's thread can run poll_work's steps while the event loop's thread
\* is held by this handler
StratumSubmit(s, maxMsgs) ==
    /\ \E params \in StratumSubmitParams :
        /\ Receive(s, "mining.submit", params, maxMsgs)
        /\ IF NotAuthorized(s)
           THEN /\ Reply(s, ErrorLine(MsgId(s), 24, "Not authorized"), closed)
                /\ UNCHANGED <<forwarded, blocking>>
           ELSE IF params = None
           THEN /\ SessionExit(s, closed)
                /\ UNCHANGED <<forwarded, blocking, out>>
           ELSE IF Len(params) < 3
           THEN /\ Reply(s, ErrorLine(MsgId(s), 21, "Not enough parameters"), closed)
                /\ UNCHANGED <<forwarded, blocking>>
           ELSE IF FindJobTest(params[2])
           THEN /\ spc' = [spc EXCEPT ![s] = "find_job"]
                /\ blocking' = s
                /\ UNCHANGED <<forwarded, sessions, closed, writer_closed, out>>
           ELSE SubmitFound(s, params, FindJobByHeader(None))
    /\ UNCHANGED <<proxyVars, reported, protocol, authorized, shares_accepted,
                   shares_rejected, sjob, broken, stopped, eof>>

\* find_job goes on with `return self.jobs[job_id]`: a KeyError ends run(),
\* a Job lets _stratum_submit go on up to the upstream call
StratumSubmitLookup(s) ==
    /\ blocking = s
    /\ spc[s] = "find_job"
    /\ UNCHANGED inbox
    /\ LET params == Params(inbox[s][Len(inbox[s])])
           job == FindJobRead(params[2])
       IN IF job = KeyError
          THEN /\ SessionExit(s, closed)
               /\ blocking' = 0
               /\ UNCHANGED <<forwarded, out>>
          ELSE SubmitFound(s, params, job)
    /\ UNCHANGED <<proxyVars, reported, protocol, authorized, shares_accepted,
                   shares_rejected, sjob, broken, stopped, eof>>

\* What submit_solution returns: rpc.submit_work gave true, gave false, or
\* raised.
Verdicts == {"accepted", "rejected", "error: upstream"}

\* submit_solution returns; the handler counts the share and replies, up to
\* the drain of the reply. The "job-not-found" branch of _stratum_submit is
\* never taken: submit_solution does not return that string.
SubmitReturn(s) ==
    /\ blocking = s
    /\ spc[s] = "blocked"
    /\ blocking' = 0
    /\ \E res \in Verdicts :
        IF res = "accepted"
        THEN /\ shares_accepted' = [shares_accepted EXCEPT ![s] = @ + 1]
             /\ UNCHANGED shares_rejected
             /\ Reply(s, ResultLine(Len(inbox[s]), <<TRUE>>), closed)
        ELSE /\ shares_rejected' = [shares_rejected EXCEPT ![s] = @ + 1]
             /\ UNCHANGED shares_accepted
             /\ Reply(s, ErrorLine(Len(inbox[s]),
                    IF Method(inbox[s][Len(inbox[s])]) = "eth_submitWork" THEN -1 ELSE 20,
                    <<"Rejected: ", res>>), closed)
    /\ UNCHANGED <<proxyVars, forwarded, reported, protocol, authorized, sjob, inbox,
                   broken, stopped, eof>>

-----------------------------------------------------------------------------
(* Initial state *)

\* JobManager.__init__
InitCache ==
    /\ jobs = EmptyDict
    /\ by_header = EmptyDict
    /\ current_job = None
    /\ counter = 0
    /\ issued = {}
    /\ prevWork = None
    /\ lastDiff = None

\* The Job the i-th poll creates when get_work serves WorkA and WorkB in
\* turn.
CacheJob(i) ==
    LET w == IF i % 2 = 1 THEN WorkA ELSE WorkB
    IN Job(hex(i), w[1], w[2], w[3])

\* The cache once twenty such polls have created Jobs 0x1 .. 0x14 and their
\* broadcasts (to no session) are over: nothing has been evicted yet.
InitCacheFull ==
    /\ jobs = [k \in {hex(i) : i \in 1..KeepLast} |-> CacheJob(IntHex(k))]
    /\ by_header = DictSet(DictSet(EmptyDict, Lower(WorkA[1]), CacheJob(KeepLast - 1)),
                           Lower(WorkB[1]), CacheJob(KeepLast))
    /\ current_job = CacheJob(KeepLast)
    /\ counter = KeepLast
    /\ issued = {CacheJob(i) : i \in 1..KeepLast}
    /\ prevWork = WorkB
    /\ lastDiff = WorkB[1]

\* StratumProxy.__init__, the poll loop asleep, no connection yet
InitProxy(pairs) ==
    /\ works \in pairs
    /\ forwarded = <<>>
    /\ reported = <<>>
    /\ pollpc = "sleep"
    /\ result = None
    /\ pjob = None
    /\ old_ids = <<>>
    /\ popped = None
    /\ pollret = None
    /\ bsnap = <<>>
    /\ bcur = 0
    /\ bjob = None
    /\ consecutive_errors = 0
    /\ audience = {}
    /\ sessions = <<>>
    /\ spc = [s \in Sessions |-> "new"]
    /\ protocol = [s \in Sessions |-> "unknown"]
    /\ authorized = [s \in Sessions |-> FALSE]
    /\ closed = [s \in Sessions |-> FALSE]
    /\ shares_accepted = [s \in Sessions |-> 0]
    /\ shares_rejected = [s \in Sessions |-> 0]
    /\ sjob = [s \in Sessions |-> None]
    /\ inbox = [s \in Sessions |-> <<>>]
    /\ blocking = 0
    /\ out = [s \in Sessions |-> <<>>]
    /\ broken = [s \in Sessions |-> FALSE]
    /\ stopped = [s \in Sessions |-> -1]
    /\ eof = [s \in Sessions |-> FALSE]
    /\ writer_closed = [s \in Sessions |-> 0]

-----------------------------------------------------------------------------
(* The job cache on its own: the poll loop with no miner connected *)

InitJobs == InitProxy({p \cup Failing : p \in WorkPairs}) /\ InitCache

NextJobs ==
    \/ PollLoop
    \/ PollCreate(MaxCacheJobs)
    \/ PollEvict

SpecJobs == InitJobs /\ [][NextJobs]_vars

-----------------------------------------------------------------------------
(* Submissions: the poll loop and its broadcast, with sessions that log
   in, authorize and submit *)

InitSubmit == InitProxy({{WorkA, WorkB}}) /\ InitCache

NextSubmit ==
    \/ PollLoop
    \/ PollCreate(SubmitJobs)
    \/ Broadcast
    \/ \E s \in 1..SubmitConns :
        \/ Connect(s)
        \/ ConnLost(s)
        \/ SessionReadEnd(s)
        \/ SessionDisconnect(s)
        \/ EthproxyLogin(s, SubmitMsgs)
        \/ StratumAuthorize(s, SubmitMsgs)
        \/ SessionPush(s)
        \/ SessionPushNotify(s)
        \/ EthproxySubmitwork(s, SubmitMsgs)
        \/ StratumSubmit(s, SubmitMsgs)
        \/ StratumSubmitLookup(s)
        \/ SubmitReturn(s)
        \/ ReplyDrained(s)

SpecSubmit == InitSubmit /\ [][NextSubmit]_vars

-----------------------------------------------------------------------------
(* Work pushes: the poll loop and its broadcast, with sessions that log in,
   subscribe and authorize *)

InitPush == InitProxy({{WorkA, WorkB}}) /\ InitCache

NextPush ==
    \/ PollLoop
    \/ PollCreate(PushJobs)
    \/ Broadcast
    \/ \E s \in 1..PushConns :
        \/ Connect(s)
        \/ ConnLost(s)
        \/ SessionReadEnd(s)
        \/ SessionDisconnect(s)
        \/ EthproxyLogin(s, PushMsgs)
        \/ EthproxyGetwork(s, PushMsgs)
        \/ EthproxyHashrate(s, PushMsgs)
        \/ OtherMethod(s, PushMsgs)
        \/ SkippedLine(s, PushMsgs)
        \/ NotARequest(s, PushMsgs)
        \/ NullParams(s, PushMsgs)
        \/ StratumSubscribe(s, PushMsgs)
        \/ StratumAuthorize(s, PushMsgs)
        \/ SessionPush(s)
        \/ SessionPushNotify(s)
        \/ ReplyDrained(s)
        \/ HashrateReturn(s)

SpecPush == InitPush /\ [][NextPush]_vars

-----------------------------------------------------------------------------
(* The poll loop under faults: a getWork result that makes poll_work raise,
   a boundary that makes the broadcast's push raise, connections that are
   lost, miners that end their sending side or stop reading *)

InitLive ==
    /\ InitProxy({{WorkA, WorkB, WorkZ, None, TrueWork}})
    /\ InitCache

NextLive ==
    \/ PollLoop
    \/ PollCreate(LiveJobs)
    \/ Broadcast
    \/ \E s \in 1..LiveConns :
        \/ Connect(s)
        \/ ConnLost(s)
        \/ SessionReadEnd(s)
        \/ SessionDisconnect(s)
        \/ MinerHalfClose(s)
        \/ MinerStops(s)
        \/ MinerResumes(s)

\* The executor's thread runs poll_work to its end and the event loop
\* resumes every task that is ready. A task awaiting a drain is ready only
\* while DrainReady holds; nothing makes a miner read or a connection end,
\* and the end of a miner's sending side wakes no drain.
FairLive ==
    /\ WF_vars(PollLoop)
    /\ WF_vars(PollCreate(LiveJobs))
    /\ WF_vars(Broadcast)

SpecLive == InitLive /\ [][NextLive]_vars /\ FairLive

-----------------------------------------------------------------------------
(* Sessions under faults: boundaries that are empty or not hexadecimal, and
   submissions that block the event loop while the poll loop runs *)

InitFaults ==
    /\ InitProxy({{WorkE, WorkZ}})
    /\ InitCache

NextFaults ==
    \/ PollLoop
    \/ PollCreate(FaultJobs)
    \/ Broadcast
    \/ \E s \in 1..FaultConns :
        \/ Connect(s)
        \/ ConnLost(s)
        \/ SessionReadEnd(s)
        \/ SessionDisconnect(s)
        \/ StratumSubscribe(s, FaultMsgs)
        \/ SessionPush(s)
        \/ SessionPushNotify(s)
        \/ EthproxySubmitwork(s, FaultMsgs)
        \/ SubmitReturn(s)
        \/ ReplyDrained(s)

SpecFaults == InitFaults /\ [][NextFaults]_vars

-----------------------------------------------------------------------------
(* Lookups during an eviction: a Stratum session submits for the oldest
   cached Job while the executor's thread runs the poll that evicts it *)

InitRace ==
    /\ InitProxy({{WorkA, WorkB}})
    /\ InitCacheFull

NextRace ==
    \/ PollLoop
    \/ PollCreate(RaceJobs)
    \/ PollEvict
    \/ Broadcast
    \/ \E s \in 1..RaceConns :
        \/ Connect(s)
        \/ ConnLost(s)
        \/ SessionReadEnd(s)
        \/ SessionDisconnect(s)
        \/ StratumAuthorize(s, RaceMsgs)
        \/ SessionPush(s)
        \/ SessionPushNotify(s)
        \/ ReplyDrained(s)
        \/ StratumSubmit(s, RaceMsgs)
        \/ StratumSubmitLookup(s)
        \/ SubmitReturn(s)

SpecRace == InitRace /\ [][NextRace]_vars

-----------------------------------------------------------------------------
(* Properties of the job cache *)

\* poll_work is not between its first and its last write to the cache
PollQuiet == pollpc \in {"sleep", "get_work", "returned", "broadcast", "bcast_notify"}

\* find_job(job_id=id)
FindById(id) == find_job(id, None)

CachedJobs == {jobs[k] : k \in DOMAIN jobs}

\* The min(n, 20) Jobs of S with the largest numeric job ids.
Newest(S) ==
    {j \in S : Cardinality({o \in S : IntHex(JobId(o)) > IntHex(JobId(j))}) < KeepLast}

\* C2: the jobId map holds at most 20 entries in every state, the states
\* between poll_work's insertion of the new Job and its pruning included.
C2_AtMostTwenty == Cardinality(DOMAIN jobs) <= KeepLast

\* C3: once the polls so far have created n Jobs, the jobId map holds exactly
\* the min(n, 20) Jobs with the largest numeric job ids, each under its own
\* id, and find_job(job_id) is None for every older Job.
C3_NewestKept ==
    PollQuiet =>
        /\ CachedJobs = Newest(issued)
        /\ Cardinality(DOMAIN jobs) =
              (IF Cardinality(issued) < KeepLast THEN Cardinality(issued) ELSE KeepLast)
        /\ \A k \in DOMAIN jobs : JobId(jobs[k]) = k
        /\ \A j \in issued \ Newest(issued) : FindById(JobId(j)) = None

\* C3 witness: 22 Jobs were created, the two oldest are gone.
C3_Witness ==
    /\ PollQuiet
    /\ Cardinality(issued) = 22
    /\ Cardinality(DOMAIN jobs) = KeepLast
    /\ FindById(hex(2)) = None
    /\ FindById(hex(3)) # None

C4_SameOrGone == \A j \in issued : FindById(JobId(j)) \in {j, None}
C4_IdsUnique == \A j1, j2 \in issued : JobId(j1) = JobId(j2) => j1 = j2
C4_GoneForever ==
    \A j \in issued : FindById(JobId(j)) = None => (FindById(JobId(j)) = None)'

\* The job id of the mining.submit session s is handling.
LookupId(s) == Params(inbox[s][Len(inbox[s])])[2]

\* A find_job call that found its id in the cache returns the Job issued
\* under that id.
C4_LookupReturns ==
    \A s \in Sessions :
        (spc[s] = "find_job" /\ spc'[s] # "find_job")
            => \E j \in issued : JobId(j) = LookupId(s) /\ FindJobRead(LookupId(s)) = j

\* C4: for every job id issued, find_job(job_id=id) is the Job created under
\* that id or None, in every state, and a call of it by a session returns
\* one of the two; once it is None it stays None; no id is issued to two
\* Jobs.
C4_StableLookup ==
    /\ [](C4_SameOrGone /\ C4_IdsUnique)
    /\ [][C4_GoneForever]_vars
    /\ [][C4_LookupReturns]_vars

\* The step of poll_work that decides: a Job is created exactly for a
\* result of length >= 3 whose header differs from the current job's (or with
\* no current job); otherwise None is returned and nothing changes.
C5_Decision ==
    (pollpc = "get_work" /\ pollpc' # "get_work") =>
        IF /\ result' # None
           /\ Len(result') >= 3
           /\ (current_job = None \/ HeaderHash(current_job) # result'[1])
        THEN /\ pollpc' = "insert_jobs"
             /\ counter' = counter + 1
             /\ pjob' = Job(hex(counter + 1), result'[1], result'[2], result'[3])
        ELSE /\ pollpc' = "returned"
             /\ pollret' = None
             /\ UNCHANGED <<jobs, by_header, current_job, counter>>

\* A Job that poll_work returns is the one it created: it is the current job,
\* cached under its id, with the header get_work returned.
C5_Returned ==
    (pollpc = "returned" /\ pollret # None) =>
        /\ pollret = pjob
        /\ current_job = pollret
        /\ FindById(JobId(pollret)) = pollret
        /\ HeaderHash(pollret) = result[1]

\* current_job follows the last usable result that differed from its
\* predecessor.
C5_Current ==
    PollQuiet =>
        IF lastDiff = None THEN current_job = None
        ELSE current_job # None /\ HeaderHash(current_job) = lastDiff

\* C5: poll_work creates a Job if and only if get_work returned at least
\* three elements with a header other than the current job's; otherwise it
\* returns None and leaves current_job, both maps and the counter alone; the
\* current job's header is that of the last such result that differed from
\* the one before it.
C5_NewWorkOnly ==
    /\ [][C5_Decision]_vars
    /\ [](C5_Returned /\ C5_Current)

\* C5 witness: a poll found the header unchanged and returned None after two
\* Jobs had been created.
C5_Witness ==
    /\ pollpc = "returned"
    /\ pollret = None
    /\ ~Unusable(result)
    /\ counter >= 2
    /\ HeaderHash(current_job) = result[1]

-----------------------------------------------------------------------------
(* Properties of submissions *)

\* Session s has just read a request with this method.
Reads(s, method) ==
    /\ Len(inbox'[s]) = Len(inbox[s]) + 1
    /\ Method(inbox'[s][Len(inbox'[s])]) = method

\* The request session s has just read.
NewParams(s) == Params(inbox'[s][Len(inbox'[s])])

\* The line is written to s's connection by this step (nothing is, on a
\* connection that is lost or a session that is closed).
Writes(s, line) ==
    out'[s] = IF closed[s] \/ broken[s] THEN out[s] ELSE Append(out[s], line)

IsSubmit(req) == Method(req) \in {"eth_submitWork", "mining.submit"}

\* The responses session s has written to submit requests.
SubmitReplies(s) ==
    Cardinality({i \in 1..Len(out[s]) :
        out[s][i].kind # "notification" /\ IsSubmit(inbox[s][out[s][i].id])})

\* C1: for every session, shares_accepted + shares_rejected is the number of
\* responses it has written to eth_submitWork and mining.submit requests.
C1_SharesCountReplies ==
    \A s \in Sessions : shares_accepted[s] + shares_rejected[s] = SubmitReplies(s)

\* C8: an authorized session that reads mining.submit for a job id not in
\* the cache, with params that leave headerHash or mixDigest missing, replies
\* error 21 "Job not found, can't reconstruct submission", forwards nothing
\* and adds one to shares_rejected.
C8_StaleSubmitRejected ==
    [][\A s \in Sessions :
        ( /\ Reads(s, "mining.submit")
          /\ authorized[s]
          /\ Len(NewParams(s)) >= 3
          /\ FindById(NewParams(s)[2]) = None
          /\ Falsy(SubmitHeader(NewParams(s), None)) \/ Falsy(SubmitMix(NewParams(s))) )
        => /\ Writes(s, ErrorLine(Len(inbox'[s]), 21,
                    "Job not found, can't reconstruct submission"))
           /\ forwarded' = forwarded
           /\ shares_rejected'[s] = shares_rejected[s] + 1
      ]_vars

\* Session s is awaiting the drain of its reply to a mining.submit it read
\* while not authorized.
RefusedSubmit(s) ==
    /\ spc[s] = "drain"
    /\ Method(inbox[s][Len(inbox[s])]) = "mining.submit"
    /\ ~authorized[s]

\* C9: mining.submit read by a session that is not authorized is answered
\* with error 24 "Not authorized" and nothing else happens: no upstream
\* call, no share counted, and once the reply is drained the session goes on
\* reading (unless its connection is lost, which the drain then detects).
C9_UnauthorizedSubmit ==
    [][\A s \in Sessions :
        /\ (Reads(s, "mining.submit") /\ ~authorized[s])
            => /\ Writes(s, ErrorLine(Len(inbox'[s]), 24, "Not authorized"))
               /\ forwarded' = forwarded
               /\ blocking' = blocking
               /\ shares_accepted' = shares_accepted
               /\ shares_rejected' = shares_rejected
               /\ ~authorized'[s]
               /\ closed'[s] = closed[s]
               /\ ~closed[s] => spc'[s] = "drain" /\ writer_closed'[s] = 0
        /\ (RefusedSubmit(s) /\ spc'[s] # "drain")
            => /\ out'[s] = out[s]
               /\ forwarded' = forwarded
               /\ blocking' = blocking
               /\ shares_accepted' = shares_accepted
               /\ shares_rejected' = shares_rejected
               /\ ~authorized'[s]
               /\ closed'[s] = (closed[s] \/ broken[s])
               /\ ~closed'[s] => spc'[s] = "read" /\ writer_closed'[s] = 0
      ]_vars

\* C9 witness: an unauthorized session got error 24 for a full, five-element
\* mining.submit and is reading again; nothing was forwarded for it.
C9_Witness ==
    \E s \in Sessions :
        /\ ~authorized[s]
        /\ spc[s] = "read"
        /\ ~closed[s]
        /\ Len(inbox[s]) = 1
        /\ Method(inbox[s][1]) = "mining.submit"
        /\ Len(Params(inbox[s][1])) = 5
        /\ Len(out[s]) = 1
        /\ out[s][1].kind = "error"
        /\ out[s][1].code = 24
        /\ forwarded = <<>>

-----------------------------------------------------------------------------
(* Properties of work pushes *)

\* The line is a mining.notify for Job j, in either dialect.
IsNotifyOf(l, j) ==
    /\ l.kind = "notification"
    /\ l.method = "mining.notify"
    /\ \/ Len(l.body) = 4 /\ l.body[1] = JobId(j)
       \/ Len(l.body) = 3 /\ l.body = <<HeaderHash(j), SeedHash(j), Boundary(j)>>

NotifyCount(s, j) ==
    Cardinality({i \in 1..Len(out[s]) : IsNotifyOf(out[s][i], j)})

\* C6: no session is sent two mining.notify for one Job, and once the
\* broadcast of a new Job is over, every authorized session that was
\* registered when it started and is still connected has been sent one.
C6_ExactlyOneNotify ==
    \A s \in Sessions : \A j \in issued :
        /\ NotifyCount(s, j) <= 1
        /\ (pollpc = "sleep" /\ bjob = j /\ s \in audience /\ ~closed[s] /\ ~broken[s])
            => NotifyCount(s, j) = 1

IsSetDifficulty(l) == l.kind = "notification" /\ l.method = "mining.set_difficulty"
IsStratumNotify(l) ==
    l.kind = "notification" /\ l.method = "mining.notify" /\ Len(l.body) = 4

\* C7: on every connection, the last mining.set_difficulty written before a
\* Stratum mining.notify for Job J exists and carries the difficulty of J's
\* boundary.
C7_DifficultyBeforeNotify ==
    \A s \in Sessions : \A i \in 1..Len(out[s]) :
        IsStratumNotify(out[s][i]) =>
            \E k \in 1..(i - 1) :
                /\ IsSetDifficulty(out[s][k])
                /\ \A m \in (k + 1)..(i - 1) : ~IsSetDifficulty(out[s][m])
                /\ \E j \in issued :
                    /\ JobId(j) = out[s][i].body[1]
                    /\ out[s][k].body = <<Difficulty(j)>>

\* C10: once a session's protocol is ethproxy or stratum, no step changes it.
C10_ProtocolFixed ==
    [][\A s \in Sessions : protocol[s] # "unknown" => protocol'[s] = protocol[s]]_vars

\* A step of _broadcast: the poll task's position in it moves on.
BroadcastStep ==
    /\ pollpc \in {"returned", "broadcast", "bcast_notify"}
    /\ <<pollpc, bsnap, bcur>>' # <<pollpc, bsnap, bcur>>

\* C11: a step of the broadcast writes only to sessions that are authorized.
C11_BroadcastToAuthorized ==
    [][\A s \in Sessions :
        (BroadcastStep /\ out'[s] # out[s]) => authorized[s]]_vars

\* Session s has just read a line.
ReadsLine(s) == Len(inbox'[s]) = Len(inbox[s]) + 1

\* C12: the step that reads a miner's line and handles it leaves the session
\* open, reading again or still in the line's handler, unless the connection
\* is already lost.
C12_NoLineClosesSession ==
    [][\A s \in Sessions :
        (ReadsLine(s) /\ ~closed[s] /\ ~broken[s])
        => /\ ~closed'[s]
           /\ spc'[s] \in {"read", "drain", "push", "find_job", "blocked",
                          "hashrate"}]_vars

\* The mining.submit params session s is handling.
LookupParams(s) == Params(inbox[s][Len(inbox[s])])

\* C13: an authorized session that has read mining.submit for a job id
\* find_job finds in the cache, headerHash or mixDigest still missing after
\* reconstruction, forwards the submission upstream and stays open, the call
\* in flight.
C13_IncompleteSubmitForwarded ==
    [][\A s \in Sessions :
        ( /\ spc[s] = "find_job" /\ spc'[s] # "find_job"
          /\ authorized[s]
          /\ ~closed[s] /\ ~broken[s]
          /\ FindById(LookupId(s)) # None
          /\ \/ Falsy(SubmitHeader(LookupParams(s), FindById(LookupId(s))))
             \/ Falsy(SubmitMix(LookupParams(s))) )
        => /\ Len(forwarded') = Len(forwarded) + 1
           /\ ~closed'[s]
           /\ spc'[s] = "blocked"]_vars

-----------------------------------------------------------------------------
(* Properties of the poll loop *)

\* C14: the poll loop never terminates: whatever the outcome of a poll
\* cycle (new Job, no change, None, an exception in poll_work or in the
\* broadcast), poll_work is invoked again.
C14_PollsForever == []<>(pollpc = "get_work")

-----------------------------------------------------------------------------
(* Properties of the event loop *)

\* C15: while a session's submit_solution call is in flight, the poll task
\* can take its next step, the next connection can be accepted and another
\* session can read a submission and start its own upstream call.
C15_SubmitDoesNotBlock ==
    \A s \in Sessions :
        spc[s] = "blocked" =>
            /\ pollpc = "sleep" => ENABLED PollLoopStart
            /\ pollpc = "returned" => ENABLED PollLoopResume
            /\ \A o \in 1..FaultConns :
                /\ (spc[o] = "new" /\ \A p \in 1..(o - 1) : spc[p] # "new")
                    => ENABLED Connect(o)
                /\ (spc[o] = "read" /\ Received < FaultMsgs)
                    => ENABLED EthproxySubmitwork(o, FaultMsgs)

-----------------------------------------------------------------------------
(* Properties of a session's end *)

\* C16: a session whose serving task has exited has had its writer closed,
\* and no writer is closed twice.
C16_WriterClosedOnExit ==
    \A s \in Sessions :
        /\ writer_closed[s] <= 1
        /\ spc[s] = "done" => writer_closed[s] = 1

\* The sessions whose serving task runs: accepted and not yet exited.
Served == {s \in Sessions : spc[s] \notin {"new", "done"}}

\* C17: the registry holds exactly the sessions being served, each once.
C17_RegistryIsServed ==
    /\ {sessions[i] : i \in 1..Len(sessions)} = Served
    /\ \A i, j \in 1..Len(sessions) : sessions[i] = sessions[j] => i = j

\* C17 witness: a session whose serving task was ended by an exception (it
\* read a line and left the loop with the connection alive) has exited and
\* is out of the registry.
C17_Witness ==
    \E s \in Sessions :
        /\ spc[s] = "done"
        /\ ~broken[s]
        /\ writer_closed[s] = 1
        /\ Len(inbox[s]) > 0
        /\ \A i \in 1..Len(sessions) : sessions[i] # s

IsResponse(l) == l.kind # "notification"

\* C18: on every connection the responses answer requests that were read,
\* in the order the requests were read, one response at most per request,
\* whatever notifications lie between them.
C18_ResponsesInOrder ==
    \A s \in Sessions :
        /\ \A i \in 1..Len(out[s]) :
            IsResponse(out[s][i]) => out[s][i].id \in 1..Len(inbox[s])
        /\ \A i, j \in 1..Len(out[s]) :
            (i < j /\ IsResponse(out[s][i]) /\ IsResponse(out[s][j]))
                => out[s][i].id < out[s][j].id

\* C18 witness: a session that sent two eth_submitWork requests got its two
\* responses in order with a broadcast's notification between them.
C18_Witness ==
    \E s \in Sessions :
        /\ Len(inbox[s]) = 2
        /\ \A k \in 1..2 : Method(inbox[s][k]) = "eth_submitWork"
        /\ \E i, j, k \in 1..Len(out[s]) :
            /\ i < j /\ j < k
            /\ IsResponse(out[s][i]) /\ out[s][i].id = 1
            /\ ~IsResponse(out[s][j])
            /\ IsResponse(out[s][k]) /\ out[s][k].id = 2

-----------------------------------------------------------------------------
(* Properties of the difficulty *)

\* The boundary is zero, empty or not hexadecimal.
FallbackBoundary(j) == Boundary(j) = <<>> \/ IntHex(Boundary(j)) <= 0

FallbackLine == NotificationLine("mining.set_difficulty", << <<"1.0">> >>)

\* The last mining.set_difficulty before every Stratum mining.notify of a Job
\* with such a boundary carries 1.0.
C19_NotifiedAtFallback ==
    \A s \in Sessions : \A i \in 1..Len(out[s]) : \A j \in issued :
        ( /\ IsStratumNotify(out[s][i])
          /\ out[s][i].body[1] = JobId(j)
          /\ FallbackBoundary(j) )
        => \E k \in 1..(i - 1) :
            /\ out[s][k] = FallbackLine
            /\ \A m \in (k + 1)..(i - 1) : ~IsSetDifficulty(out[s][m])

\* The push after subscribe/authorize of such a Job writes set_difficulty
\* 1.0 and leaves the session open.
C19_PushAtFallback ==
    \A s \in Sessions :
        ( /\ spc[s] = "push" /\ spc'[s] # "push"
          /\ current_job # None
          /\ FallbackBoundary(current_job)
          /\ ~closed[s] /\ ~broken[s] )
        => /\ out'[s] = Append(out[s], FallbackLine)
           /\ ~closed'[s]

\* The broadcast of such a Job begins a push when an open Stratum session
\* on a live connection is registered.
C19_BroadcastAtFallback ==
    ( /\ pollpc = "returned" /\ pollpc' # "returned"
      /\ pollret # None
      /\ FallbackBoundary(pollret)
      /\ \E i \in 1..Len(sessions) :
            /\ ~closed[sessions[i]] /\ ~broken[sessions[i]]
            /\ protocol[sessions[i]] # "ethproxy" )
    => pollpc' = "bcast_notify"

\* C19: a Stratum push of a Job whose boundary is zero, empty or not
\* hexadecimal sends set_difficulty 1.0 and then mining.notify, on a
\* broadcast and after subscribe/authorize, and does not close the session.
C19_FallbackDifficulty ==
    /\ []C19_NotifiedAtFallback
    /\ [][C19_PushAtFallback]_vars
    /\ [][C19_BroadcastAtFallback]_vars

-----------------------------------------------------------------------------
(* Properties of the two maps *)

\* C20: when poll_work is not in the middle of its writes, every cached Job
\* is found by its header, as a cached Job with that header (letter case
\* aside), and the header map refers to cached Jobs only.
C20_MapsConsistent ==
    PollQuiet =>
        /\ \A j \in CachedJobs :
            /\ find_job(None, HeaderHash(j)) \in CachedJobs
            /\ Lower(HeaderHash(find_job(None, HeaderHash(j)))) = Lower(HeaderHash(j))
        /\ \A h \in DOMAIN by_header : by_header[h] \in CachedJobs


\* C21: no step forwards a solution upstream on behalf of a session whose
\* authorized flag is false, whichever submit method the session read.
C21_NoForwardUnauthorized ==
    [][\A s \in Sessions :
        ~authorized[s]
        => \A i \in DOMAIN forwarded' :
              i > Len(forwarded) => forwarded'[i][1] # s
      ]_vars

====
